---------------------------- MODULE Spec2Model ----------------------------
(***************************************************************************)
(* State-machine model of auto-mpg/ingest-data.py: the IngestData flow     *)
(* (start -> get_file -> process_dataset -> save_dataset -> end) and the   *)
(* helper download_file.                                                   *)
(*                                                                         *)
(* Representation.                                                         *)
(*   - Text (file contents, rows, tokens, labels) is a sequence of         *)
(*     one-character strings, so that split/replace/float are computed     *)
(*     character by character as Python computes them.                     *)
(*   - A path or URL is a sequence of atoms; the separator "/" is an atom  *)
(*     of its own and no other atom contains a "/".                        *)
(*   - A table cell is [k |-> kind, v |-> text] with kind "str", "float"   *)
(*     or "none" (pandas pads short rows with None).                       *)
(***************************************************************************)
EXTENDS Integers, Sequences, FiniteSets, TLC

VARIABLES
    pc,         \* the stage the run executes next, or "done" / "failed"
    run,        \* number of the current run (1-based)
    self,       \* the flow object's attributes
    fs_dirs,    \* directories that exist on disk
    fs_files,   \* files on disk: path -> content
    now,        \* the wall clock: the index in Instants of the present instant
    history,    \* stages the current run has executed, in order
    error,      \* the stage that raised in the current run, or "none"
    saved_at,   \* date on which each processed file was last opened for writing
    snapshot,   \* fs_files and saved_at as they were when the current run began
    touched,    \* processed paths the current run opened for writing
    arg,        \* input of the function under test (function-level specifications)
    ret,        \* its result
    calls       \* how many times it has been applied

vars == <<pc, run, self, fs_dirs, fs_files, now, history, error, saved_at,
          snapshot, touched, arg, ret, calls>>

(***************************************************************************)
(* Bounds of the model.                                                    *)
(***************************************************************************)
MaxRuns == 2
MaxLineLen == 4
MaxRows == 2

None == [k |-> "none", v |-> <<>>]
Raised == [k |-> "raised", v |-> <<>>]

Last(s) == s[Len(s)]
Front(s) == SubSeq(s, 1, Len(s) - 1)

(***************************************************************************)
(* Python str methods used by process_dataset.                             *)
(***************************************************************************)
\* The k-th smallest element of a finite set of integers.
Kth(S, k) == CHOOSE x \in S : Cardinality({y \in S : y <= x}) = k

\* The positions of s that hold a character of the set chars.
Positions(s, chars) == {i \in 1..Len(s) : s[i] \in chars}

\* str.replace(old, "") for a one-character old: the characters other than
\* old, in their order.
Remove(s, ch) ==
    LET Other(c) == c # ch
    IN SelectSeq(s, Other)

\* str.split(sep) for a one-character sep: k separators give k+1 segments,
\* empty segments kept.
SplitOn(s, sep) ==
    LET at == Positions(s, {sep})
        n == Cardinality(at)
        from(k) == IF k = 1 THEN 1 ELSE Kth(at, k - 1) + 1
        to(k) == IF k = n + 1 THEN Len(s) ELSE Kth(at, k) - 1
    IN [k \in 1..(n + 1) |-> SubSeq(s, from(k), to(k))]

\* Whitespace as str.split() and float() see it.
Whitespace == {" ", "\t", "\n", "\r"}

\* str.split() with no argument: the maximal runs of non-whitespace.
SplitWs(s) ==
    LET ink == {i \in 1..Len(s) : s[i] \notin Whitespace}
        starts == {i \in ink : i - 1 \notin ink}
        ends == {i \in ink : i + 1 \notin ink}
    IN [k \in 1..Cardinality(starts) |-> SubSeq(s, Kth(starts, k), Kth(ends, k))]

\* file.readlines(): cut after every "\n", the newline kept; a last line
\* without newline is a line too.
ReadLines(text) ==
    LET ends == Positions(text, {"\n"})
                   \cup (IF text # <<>> THEN {Len(text)} ELSE {})
        from(k) == IF k = 1 THEN 1 ELSE Kth(ends, k - 1) + 1
    IN [k \in 1..Cardinality(ends) |-> SubSeq(text, from(k), Kth(ends, k))]

\* Variant that forgets the single quote.
StripQuotesDoubleOnly(label) == Remove(label, "\"")

\* The quote-stripping of the label, lines 95-96.
StripQuotes(label) == Remove(Remove(label, "\""), "'")

\* The body of the loop over rows, lines 93-97: the row's list of values, or
\* Raised when the tuple unpacking of the tab split fails (ValueError).
ParseRow(row) ==
    LET parts == SplitOn(Remove(row, "\n"), "\t")
    IN IF Len(parts) # 2 THEN Raised
       ELSE [k |-> "row", v |-> Append(SplitWs(parts[1]), StripQuotes(parts[2]))]

(***************************************************************************)
(* float() of a text, as astype(float) applies it to the cells of an       *)
(* object column.  The grammar modelled is the one the model's alphabet    *)
(* can spell: optional surrounding whitespace, decimal digits with at most *)
(* one point and at least one digit.  (Signs, exponents, "inf", "nan" and  *)
(* underscores are not in any alphabet the model draws texts from.)        *)
(* The float is kept as its canonical decimal text, e.g. "3504." -> 3504.0 *)
(***************************************************************************)
Digits == {"0", "1", "2", "3", "4", "5", "6", "7", "8", "9"}

RECURSIVE LStrip(_)
LStrip(s) ==
    IF s # <<>> /\ Head(s) \in Whitespace THEN LStrip(Tail(s)) ELSE s

RECURSIVE RStrip(_)
RStrip(s) ==
    IF s # <<>> /\ Last(s) \in Whitespace THEN RStrip(Front(s)) ELSE s

Strip(s) == RStrip(LStrip(s))

RECURSIVE DropLeadingZeros(_)
DropLeadingZeros(s) ==
    IF Len(s) > 1 /\ Head(s) = "0" THEN DropLeadingZeros(Tail(s)) ELSE s

RECURSIVE DropTrailingZeros(_)
DropTrailingZeros(s) ==
    IF Len(s) > 1 /\ Last(s) = "0" THEN DropTrailingZeros(Front(s)) ELSE s

AllDigits(s) == \A i \in 1..Len(s) : s[i] \in Digits

NaN == <<"n", "a", "n">>

\* float(text): the canonical text of the number, or Raised (ValueError).
ParseFloat(text) ==
    LET t == Strip(text)
        parts == SplitOn(t, ".")
        int == parts[1]
        frac == IF Len(parts) = 2 THEN parts[2] ELSE <<>>
    IN IF \/ Len(parts) > 2
          \/ ~AllDigits(int) \/ ~AllDigits(frac)
          \/ (int = <<>> /\ frac = <<>>)
       THEN Raised
       ELSE [k |-> "float",
             v |-> DropLeadingZeros(IF int = <<>> THEN <<"0">> ELSE int)
                   \o <<".">>
                   \o DropTrailingZeros(IF frac = <<>> THEN <<"0">> ELSE frac)]

Str(text) == [k |-> "str", v |-> text]
Float(text) == [k |-> "float", v |-> text]

\* Variant: a bad token becomes NaN instead of raising (errors="coerce").
CastCellDefaulting(cell) ==
    IF cell.k = "float" THEN cell
    ELSE IF cell.k = "none" THEN Float(NaN)
    ELSE IF ParseFloat(cell.v) = Raised THEN Float(NaN) ELSE ParseFloat(cell.v)

\* Variant: a parser that only accepts text, and raises on a float.
CastCellTextOnly(cell) ==
    IF cell.k = "float" THEN Raised
    ELSE IF cell.k = "none" THEN Float(NaN)
    ELSE ParseFloat(cell.v)

\* The cast astype(float) applies to one cell of a column.
CastCell(cell) ==
    IF cell.k = "float" THEN cell
    ELSE IF cell.k = "none" THEN Float(NaN)
    ELSE ParseFloat(cell.v)

(***************************************************************************)
(* A table (pandas DataFrame): column names, column dtypes, rows of cells. *)
(***************************************************************************)
Table(columns, dtypes, rows) ==
    [k |-> "table", columns |-> columns, dtypes |-> dtypes, rows |-> rows]

\* self.data[column] = self.data[column].astype(float), line 103: Raised if
\* a cell of the column cannot be cast, else the table with the column cast.
AstypeFloat(t, c) ==
    IF \E r \in 1..Len(t.rows) : CastCell(t.rows[r][c]) = Raised
    THEN Raised
    ELSE Table(t.columns,
               [t.dtypes EXCEPT ![c] = "float64"],
               [r \in 1..Len(t.rows) |->
                    [t.rows[r] EXCEPT ![c] = CastCell(t.rows[r][c])]])

\* The loop of lines 101-103 from column c on.
RECURSIVE CoerceFrom(_, _)
CoerceFrom(t, c) ==
    IF c > Len(t.columns) THEN t
    ELSE IF t.columns[c] = "car name" THEN CoerceFrom(t, c + 1)
    ELSE IF AstypeFloat(t, c) = Raised THEN Raised
    ELSE CoerceFrom(AstypeFloat(t, c), c + 1)

Coerce(t) == CoerceFrom(t, 1)

(***************************************************************************)
(* Paths and the file system.                                              *)
(***************************************************************************)
Sep == "/"

EmptyFiles == [p \in {} |-> <<>>]

\* The index of the last "/" atom of p, 0 if there is none.
LastSep(p) ==
    LET at == {i \in 1..Len(p) : p[i] = Sep}
    IN IF at = {} THEN 0 ELSE CHOOSE i \in at : \A j \in at : j <= i

\* url.split("/")[-1], line 24.
LastSegment(url) == SubSeq(url, LastSep(url) + 1, Len(url))

RECURSIVE StripSeps(_)
StripSeps(p) ==
    IF p # <<>> /\ Last(p) = Sep THEN StripSeps(Front(p)) ELSE p

\* os.path.split(p)[0], line 26: what precedes the last "/", its trailing
\* slashes dropped unless it is slashes only.
DirName(p) ==
    LET head == SubSeq(p, 1, LastSep(p))
    IN IF StripSeps(head) = <<>> THEN head ELSE StripSeps(head)

\* os.path.join of two paths: an absolute second path replaces the first,
\* else a "/" is put between them unless the first is empty or ends in one.
Join2(a, b) ==
    IF b # <<>> /\ Head(b) = Sep THEN b
    ELSE IF a = <<>> \/ Last(a) = Sep THEN a \o b
    ELSE a \o <<Sep>> \o b

RECURSIVE Join(_)
Join(ps) ==
    IF Len(ps) = 1 THEN ps[1] ELSE Join(<<Join2(ps[1], ps[2])>> \o SubSeq(ps, 3, Len(ps)))

\* The path as the file system resolves it: repeated and trailing slashes
\* dropped (a leading one kept).  <<>> is the working directory.
IsName(a) == a # Sep

RECURSIVE JoinNames(_)
JoinNames(names) ==
    IF Len(names) <= 1 THEN names
    ELSE <<Head(names), Sep>> \o JoinNames(Tail(names))

Norm(p) ==
    (IF p # <<>> /\ Head(p) = Sep THEN <<Sep>> ELSE <<>>)
        \o JoinNames(SelectSeq(p, IsName))

\* The directory a normalised path lies in.
Parent(p) == Norm(DirName(p))

\* A normalised directory and all the directories above it.
RECURSIVE Ancestors(_)
Ancestors(d) ==
    IF d = <<>> \/ d = <<Sep>> THEN {d} ELSE {d} \cup Ancestors(Parent(d))

\* Path(d).mkdir(parents=True, exist_ok=True), line 27, and os.makedirs(d),
\* line 126: Raised if d or a directory above it exists as a file, else the
\* directories with d and every missing directory above it.
MakeDirs(dirs, files, d) ==
    LET n == Norm(d)
    IN IF Ancestors(n) \cap DOMAIN files # {} THEN Raised
       ELSE [k |-> "dirs", v |-> dirs \cup Ancestors(n)]

\* The directories above a normalised path: what precedes each of its "/"
\* (the root for a leading "/").
DirsAbove(path) ==
    {IF i = 1 THEN <<Sep>> ELSE SubSeq(path, 1, i - 1) :
        i \in {j \in 1..Len(path) : path[j] = Sep}}

\* open(path, "wb") can create or truncate the file.
CanOpenForWrite(dirs, path) ==
    /\ path # <<>>
    /\ Last(path) # Sep
    /\ Norm(path) \notin dirs
    /\ Parent(Norm(path)) \in dirs

\* What the file system holds for a file.
Bytes(text) == [k |-> "bytes", v |-> text]

\* What the HTTP server does: the connection fails ("refused"), the body
\* breaks off after the bytes v ("cut"), or the body v arrives whole ("ok").
Response(kind, bytes) == [k |-> kind, v |-> bytes]

NoArg == [k |-> "none", v |-> <<>>]
PathArg(p) == [k |-> "path", v |-> p]

Outcome(r, dirs, files) == [ret |-> r, dirs |-> dirs, files |-> files]

\* Variant that does not make the parent directories.
DownloadNoMkdir(url, custom, dirs, files, resp) ==
    LET local_filename == IF custom # NoArg THEN custom.v ELSE LastSegment(url)
        target == Norm(local_filename)
    IN IF resp.k = "refused" THEN Outcome(Raised, dirs, files)
       ELSE IF ~CanOpenForWrite(dirs, local_filename)
       THEN Outcome(Raised, dirs, files)
       ELSE IF resp.k = "cut"
       THEN Outcome(Raised, dirs, (target :> Bytes(resp.v)) @@ files)
       ELSE Outcome(PathArg(local_filename), dirs,
                    (target :> Bytes(resp.v)) @@ files)

\* download_file(url, custom_filename), lines 21-33, given what the server
\* does.  In the order of the code: the directories are made (or that
\* raises); requests.get raises; open raises; the copy breaks off and leaves
\* a truncated file; or the body is written whole and the name is returned.
Download(url, custom, dirs, files, resp) ==
    LET local_filename == IF custom # NoArg THEN custom.v ELSE LastSegment(url)
        made == MakeDirs(dirs, files, DirName(local_filename))
        target == Norm(local_filename)
    IN IF made = Raised THEN Outcome(Raised, dirs, files)
       ELSE IF resp.k = "refused" THEN Outcome(Raised, made.v, files)
       ELSE IF ~CanOpenForWrite(made.v, local_filename)
       THEN Outcome(Raised, made.v, files)
       ELSE IF resp.k = "cut"
       THEN Outcome(Raised, made.v, (target :> Bytes(resp.v)) @@ files)
       ELSE Outcome(PathArg(local_filename), made.v,
                    (target :> Bytes(resp.v)) @@ files)

(***************************************************************************)
(* The attributes start() sets, lines 42-57.  The elements of the list     *)
(* feature_names are adjacent string literals with no comma between them,  *)
(* which Python concatenates: the list has ONE element.                    *)
(***************************************************************************)
BaseUrl ==
    <<"https:", Sep, Sep, "archive.ics.uci.edu", Sep, "ml", Sep,
      "machine-learning-databases", Sep, "auto-mpg">>

DataFile == <<"auto-mpg.data">>

DataDirectory == <<"auto-mpg", Sep, "data">>

FeatureNames ==
    << "mpg" \o "cylinders" \o "displacement" \o "horsepower" \o "weight"
       \o "acceleration" \o "model year" \o "origin" \o "car name" >>

\* url and custom_filename as get_file builds them, lines 67-68.
GetFileUrl(attrs) == attrs.base_url \o <<Sep>> \o attrs.data_file

GetFileName(attrs) ==
    attrs.data_directory \o <<Sep, "raw", Sep>> \o attrs.data_file

\* The path process_dataset opens, line 86.
RawPath(attrs) == Join(<<attrs.data_directory, <<"raw">>, attrs.data_file>>)

(***************************************************************************)
(* Function-level specification of the row parser.                         *)
(***************************************************************************)
RowChars == {"1", "x", " ", "\t", "\"", "'"}

PipelineIdle ==
    /\ pc = "idle"
    /\ run = 0
    /\ self = None
    /\ fs_dirs = {}
    /\ fs_files = <<>>
    /\ now = None
    /\ history = <<>>
    /\ error = "none"
    /\ saved_at = <<>>
    /\ snapshot = None
    /\ touched = {}

PipelineUnchanged ==
    UNCHANGED <<pc, run, self, fs_dirs, fs_files, now, history, error,
                saved_at, snapshot, touched>>

\* A row as readlines yields it: up to MaxLineLen characters, none of them a
\* newline, and then a newline or (the last line of a file) none.
ParseInit ==
    /\ PipelineIdle
    /\ \E n \in 0..MaxLineLen, newline \in {<<>>, <<"\n">>} :
         \E body \in [1..n -> RowChars] : arg = body \o newline
    /\ ret = None
    /\ calls = 0

ParseStep ==
    /\ calls = 0
    /\ ret' = ParseRow(arg)
    /\ calls' = 1
    /\ UNCHANGED arg
    /\ PipelineUnchanged

ParseSpec == ParseInit /\ [][ParseStep]_vars

\* C6: every parsed row's last value (the car name) holds no double or single
\* quote character and is exactly the text after the row's tab with the quote
\* characters (and the line's newline) taken out, the other characters kept in
\* their order.
C6_NoQuotesInCarName ==
    (calls = 1 /\ ret.k = "row") =>
        LET name == Last(ret.v)
            tab == CHOOSE t \in 1..Len(arg) : arg[t] = "\t"
            kept == {i \in (tab + 1)..Len(arg) : arg[i] \notin {"\"", "'", "\n"}}
        IN /\ \A i \in 1..Len(name) : name[i] \notin {"\"", "'"}
           /\ Len(name) = Cardinality(kept)
           /\ \A k \in 1..Len(name) : name[k] = arg[Kth(kept, k)]

\* A label holding both kinds of quote around and inside kept text was parsed.
C6_Witness ==
    /\ calls = 1
    /\ ret.k = "row"
    /\ \E i, j \in 1..Len(arg) : arg[i] = "\"" /\ arg[j] = "'"
    /\ Last(ret.v) = <<"x">>

(***************************************************************************)
(* Function-level specification of the type coercion (lines 101-103).      *)
(* The tables drawn are those a DataFrame built from lists of text can be: *)
(* object columns whose cells are text, or None where a row was padded.    *)
(***************************************************************************)
CellPool ==
    {Str(<<"1">>), Str(<<" ", "2", ".">>), Str(<<"x">>), Str(<<>>), None}

ColumnChoices ==
    {<<"mpg", "car name">>, <<"car name", "origin">>, <<"mpg", "origin">>}

\* A freshly built table of n rows under the columns cols.
FreshTable(cols, rows) ==
    Table(cols, [c \in 1..Len(cols) |-> "object"], rows)

CoerceInit ==
    /\ PipelineIdle
    /\ \E cols \in ColumnChoices, n \in 0..MaxRows :
         \E rows \in [1..n -> [1..Len(cols) -> CellPool]] :
            arg = FreshTable(cols, rows)
    /\ ret = None
    /\ calls = 0

\* The coercion applied to a freshly built table.
CoerceOnce ==
    /\ calls = 0
    /\ ret' = Coerce(arg)
    /\ calls' = 1
    /\ UNCHANGED arg
    /\ PipelineUnchanged

\* The coercion applied again to the table it produced.
CoerceAgain ==
    /\ calls = 1
    /\ ret # Raised
    /\ arg' = ret
    /\ ret' = Coerce(ret)
    /\ calls' = 2
    /\ PipelineUnchanged

CoerceNext == CoerceOnce \/ CoerceAgain

CoerceSpec == CoerceInit /\ [][CoerceNext]_vars

\* The texts of CellPool that spell a number, with the float each spells.
C5_Expected(cell) ==
    IF cell = Str(<<"1">>) THEN Float(<<"1", ".", "0">>)
    ELSE IF cell = Str(<<" ", "2", ".">>) THEN Float(<<"2", ".", "0">>)
    ELSE IF cell = None THEN Float(NaN)
    ELSE Raised

C10_CoerceIdempotent ==
    calls = 2 => ret = arg

\* A coerced table with float cells in it was coerced a second time.
C10_Witness ==
    /\ calls = 2
    /\ ret # Raised
    /\ Len(ret.rows) = 2
    /\ \E c \in 1..Len(ret.columns) : ret.rows[1][c].k = "float"

(***************************************************************************)
(* Function-level specification of download_file.                          *)
(***************************************************************************)
\* What start() leaves on the flow object (self.data is not set yet).
StartAttrs ==
    [base_url |-> BaseUrl, data_file |-> DataFile,
     data_directory |-> DataDirectory, feature_names |-> FeatureNames,
     data |-> None]

UrlPool ==
    {GetFileUrl(StartAttrs),
     <<"http:", Sep, Sep, "host", Sep, "a", Sep, "b.data">>,
     <<"http:", Sep, Sep, "host", Sep, "c">>,
     <<"http:", Sep, Sep, "host", Sep, "a", Sep>>}

CustomPool ==
    {NoArg,
     PathArg(GetFileName(StartAttrs)),
     PathArg(<<"out.data">>),
     PathArg(<<"d", Sep, "out.data">>),
     PathArg(<<Sep, "abs", Sep, "d", Sep, "f">>),
     PathArg(<<"d", Sep>>)}

ResponsePool ==
    {Response("refused", <<>>), Response("cut", <<"a">>),
     Response("ok", <<>>), Response("ok", <<"a", "\n", "b">>)}

\* The working directory and the root exist; "d" may exist as a directory
\* holding an older out.data, or as a file.
DiskPool ==
    {[dirs |-> {<<>>, <<Sep>>}, files |-> EmptyFiles],
     [dirs |-> {<<>>, <<Sep>>, <<"d">>},
      files |-> (<<"d", Sep, "out.data">> :> Bytes(<<"o">>))],
     [dirs |-> {<<>>, <<Sep>>}, files |-> (<<"d">> :> Bytes(<<"o">>))]}

DownloadInit ==
    /\ arg \in [url : UrlPool, custom : CustomPool, resp : ResponsePool,
                disk : DiskPool]
    /\ fs_dirs = arg.disk.dirs
    /\ fs_files = arg.disk.files
    /\ ret = None
    /\ calls = 0
    /\ pc = "idle"
    /\ run = 0
    /\ self = None
    /\ now = None
    /\ history = <<>>
    /\ error = "none"
    /\ saved_at = <<>>
    /\ snapshot = None
    /\ touched = {}

DownloadStep ==
    /\ calls = 0
    /\ LET out == Download(arg.url, arg.custom, fs_dirs, fs_files, arg.resp)
       IN /\ ret' = out.ret
          /\ fs_dirs' = out.dirs
          /\ fs_files' = out.files
    /\ calls' = 1
    /\ UNCHANGED <<arg, pc, run, self, now, history, error, saved_at,
                   snapshot, touched>>

DownloadSpec == DownloadInit /\ [][DownloadStep]_vars

\* The last segment of each URL of UrlPool, read off the URL.
C9_UrlName(url) ==
    IF url = <<"http:", Sep, Sep, "host", Sep, "a", Sep, "b.data">> THEN <<"b.data">>
    ELSE IF url = <<"http:", Sep, Sep, "host", Sep, "c">> THEN <<"c">>
    ELSE IF url = <<"http:", Sep, Sep, "host", Sep, "a", Sep>> THEN <<>>
    ELSE <<"auto-mpg.data">>

\* C9: download_file writes to and returns the destination, which is
\* custom_filename when given and the URL's last segment otherwise; when it
\* returns, the file holds the body and every directory above it exists; it
\* does return whenever the body arrives whole and the destination is a file
\* name that no existing file or directory stands in the way of, missing
\* parent directories or not; and called as get_file calls it, the file it
\* writes is the one at the path process_dataset opens.
C9_DownloadDestination ==
    calls = 1 =>
        LET dest == IF arg.custom # NoArg THEN arg.custom.v
                    ELSE C9_UrlName(arg.url)
            free == /\ dest # <<>>
                    /\ Last(dest) # Sep
                    /\ dest \notin arg.disk.dirs
                    /\ DirsAbove(dest) \cap DOMAIN arg.disk.files = {}
        IN /\ ret # Raised =>
                /\ ret = PathArg(dest)
                /\ dest \in DOMAIN fs_files
                /\ fs_files[dest] = Bytes(arg.resp.v)
                /\ DirsAbove(dest) \subseteq fs_dirs
                /\ \A f \in DOMAIN arg.disk.files :
                     f # dest => /\ f \in DOMAIN fs_files
                                 /\ fs_files[f] = arg.disk.files[f]
           /\ (arg.resp.k = "ok" /\ free) => ret # Raised
           /\ (ret # Raised /\ arg.custom = PathArg(GetFileName(StartAttrs))) =>
                /\ RawPath(StartAttrs) \in DOMAIN fs_files
                /\ fs_files[RawPath(StartAttrs)] = Bytes(arg.resp.v)

\* The call get_file makes, on a disk without the directories, returned with
\* the raw file in place under auto-mpg/data/raw.
C9_Witness ==
    /\ calls = 1
    /\ arg.url = GetFileUrl(StartAttrs)
    /\ arg.custom = PathArg(GetFileName(StartAttrs))
    /\ <<"auto-mpg">> \notin arg.disk.dirs
    /\ ret = PathArg(<<"auto-mpg", Sep, "data", Sep, "raw", Sep, "auto-mpg.data">>)
    /\ <<"auto-mpg", Sep, "data", Sep, "raw">> \in fs_dirs
    /\ fs_files[<<"auto-mpg", Sep, "data", Sep, "raw", Sep, "auto-mpg.data">>]
         = Bytes(<<"a", "\n", "b">>)

(***************************************************************************)
(* process_dataset, lines 85-103.                                          *)
(***************************************************************************)
Max(S) == CHOOSE x \in S : \A y \in S : y <= x

\* pd.DataFrame(values, columns=names), line 100, for a list of lists of
\* text: no rows give an empty table with the named columns; otherwise the
\* rows are padded with None to the longest row, and the number of names
\* must be that width (ValueError if not).  The columns are object columns.
DataFrame(values, names) ==
    IF values = <<>>
    THEN Table(names, [c \in 1..Len(names) |-> "object"], <<>>)
    ELSE LET width == Max({Len(values[r]) : r \in 1..Len(values)})
         IN IF Len(names) # width THEN Raised
            ELSE Table(names, [c \in 1..width |-> "object"],
                       [r \in 1..Len(values) |->
                            [c \in 1..width |->
                                 IF c <= Len(values[r])
                                 THEN Str(values[r][c]) ELSE None]])

\* The whole stage: read the raw file, parse every row, build the table,
\* coerce it.  The table, or Raised.
ProcessDataset(attrs, files) ==
    IF RawPath(attrs) \notin DOMAIN files THEN Raised
    ELSE LET rows == ReadLines(files[RawPath(attrs)].v)
             parsed == [r \in 1..Len(rows) |-> ParseRow(rows[r])]
         IN IF \E r \in 1..Len(rows) : parsed[r] = Raised THEN Raised
            ELSE LET df == DataFrame([r \in 1..Len(rows) |-> parsed[r].v],
                                     attrs.feature_names)
                 IN IF df = Raised THEN Raised ELSE Coerce(df)

(***************************************************************************)
(* save_dataset, lines 118-132.                                            *)
(***************************************************************************)
DigitOf(n) == <<"0", "1", "2", "3", "4", "5", "6", "7", "8", "9">>[n + 1]

\* The decimal digits of n, without padding.
RECURSIVE Decimal(_)
Decimal(n) ==
    IF n < 10 THEN DigitOf(n) ELSE Decimal(n \div 10) \o DigitOf(n % 10)

\* strftime's zero-padded decimal field of the given width (%Y, %m, %d).
RECURSIVE ZeroPad(_, _)
ZeroPad(n, width) ==
    IF Len(Decimal(n)) >= width THEN Decimal(n)
    ELSE "0" \o ZeroPad(n, width - 1)

WidthOfYear == 4
WidthOfMonth == 2
WidthOfDay == 2

\* Variant without the zero padding ("%-m", "%-d").
PartitionDirUnpadded(attrs, ts) ==
    Join(<<attrs.data_directory, <<"processed">>,
           <<"yearkey=" \o Decimal(ts.year)>>,
           <<"monthkey=" \o Decimal(ts.month)>>,
           <<"daykey=" \o Decimal(ts.day)>> >>)

\* Variant that leaves the day out of the path.
PartitionDirNoDay(attrs, ts) ==
    Join(<<attrs.data_directory, <<"processed">>,
           <<"yearkey=" \o ZeroPad(ts.year, WidthOfYear)>>,
           <<"monthkey=" \o ZeroPad(ts.month, WidthOfMonth)>> >>)

\* The directory of lines 119-124 for a timestamp.
PartitionDir(attrs, ts) ==
    Join(<<attrs.data_directory, <<"processed">>,
           <<"yearkey=" \o ZeroPad(ts.year, WidthOfYear)>>,
           <<"monthkey=" \o ZeroPad(ts.month, WidthOfMonth)>>,
           <<"daykey=" \o ZeroPad(ts.day, WidthOfDay)>> >>)

\* The file of line 129.
PartitionFile(attrs, ts) == Join2(PartitionDir(attrs, ts), <<"data.parquet.gzip">>)

\* What the file system holds for a processed file: the table written whole,
\* or the remains of a write that broke off.
Parquet(table) == [k |-> "parquet", v |-> table]
Truncated == [k |-> "truncated", v |-> None]

\* What the disk does to save_dataset: nothing ("ok"), makedirs raises
\* ("no_mkdir"), to_parquet raises before it has opened the file ("no_open"),
\* or to_parquet raises after it has opened it ("cut").
DiskEvents == {"ok", "no_mkdir", "no_open", "cut"}

Saved(ok, dirs, files, opened) ==
    [ok |-> ok, dirs |-> dirs, files |-> files, opened |-> opened]

\* Variant in which something raises after the file has been written whole.
SaveDatasetRaisesAfterWrite(attrs, dirs, files, ts, disk) ==
    LET dir == PartitionDir(attrs, ts)
        file == PartitionFile(attrs, ts)
        made == IF Norm(dir) \in dirs \cup DOMAIN files
                THEN [k |-> "dirs", v |-> dirs]
                ELSE MakeDirs(dirs, files, dir)
    IN IF made = Raised \/ attrs.data = None
          \/ ~CanOpenForWrite(made.v, file)
       THEN Saved(FALSE, dirs, files, {})
       ELSE Saved(disk = "ok", made.v,
                  (Norm(file) :> Parquet(attrs.data)) @@ files, {Norm(file)})

\* The stage, given the clock and what the disk does: whether it completed,
\* the file system it leaves, and the files it opened for writing.
SaveDataset(attrs, dirs, files, ts, disk) ==
    LET dir == PartitionDir(attrs, ts)
        file == PartitionFile(attrs, ts)
        exists == Norm(dir) \in dirs \cup DOMAIN files
        made == IF exists THEN [k |-> "dirs", v |-> dirs]
                ELSE IF disk = "no_mkdir" THEN Raised
                ELSE MakeDirs(dirs, files, dir)
    IN IF made = Raised THEN Saved(FALSE, dirs, files, {})
       ELSE IF attrs.data = None THEN Saved(FALSE, made.v, files, {})
       ELSE IF disk = "no_open" \/ ~CanOpenForWrite(made.v, file)
       THEN Saved(FALSE, made.v, files, {})
       ELSE IF disk = "cut"
       THEN Saved(FALSE, made.v, (Norm(file) :> Truncated) @@ files, {Norm(file)})
       ELSE Saved(TRUE, made.v,
                  (Norm(file) :> Parquet(attrs.data)) @@ files, {Norm(file)})

(***************************************************************************)
(* The inputs of a run: what the server sends and what the clock shows.    *)
(***************************************************************************)
\* Two well-formed rows of the data set: 8 fields, a tab, a quoted label.
LineA ==
    <<"1", "8", ".", "0", " ", "8", " ", "3", "0", "7", ".", "0", " ", "1",
      "3", "0", ".", "0", " ", "3", "5", "0", "4", ".", " ", "1", "2", ".",
      "0", " ", "7", "0", " ", "1", "\t", "\"", "c", "h", "e", "v", "r",
      "o", "l", "e", "t", " ", "c", "h", "e", "v", "e", "l", "l", "e", " ",
      "m", "a", "l", "i", "b", "u", "\"", "\n">>

\* The second well-formed row.
LineB ==
    <<"1", "5", ".", "0", " ", "8", " ", "3", "5", "0", ".", "0", " ", "1",
      "6", "5", ".", "0", " ", "3", "6", "9", "3", ".", " ", "1", "1", ".",
      "5", " ", "7", "0", " ", "1", "\t", "\"", "b", "u", "i", "c", "k",
      " ", "s", "k", "y", "l", "a", "r", "k", " ", "3", "2", "0", "\"",
      "\n">>

\* A row with only 7 fields before the tab.
LineSeven ==
    <<"1", "5", ".", "0", " ", "8", " ", "3", "5", "0", ".", "0", " ", "1",
      "6", "5", ".", "0", " ", "3", "6", "9", "3", ".", " ", "1", "1", ".",
      "5", " ", "7", "0", "\t", "\"", "b", "u", "i", "c", "k", " ", "s",
      "k", "y", "l", "a", "r", "k", " ", "3", "2", "0", "\"", "\n">>

\* A row with 9 fields before the tab.
LineNine ==
    <<"1", "5", ".", "0", " ", "8", " ", "3", "5", "0", ".", "0", " ", "1",
      "6", "5", ".", "0", " ", "3", "6", "9", "3", ".", " ", "1", "1", ".",
      "5", " ", "7", "0", " ", "1", " ", "1", "\t", "\"", "b", "u", "i",
      "c", "k", "\"", "\n">>

\* A row whose label follows a space instead of a tab.
LineNoTab ==
    <<"1", "5", ".", "0", " ", "8", " ", "3", "5", "0", ".", "0", " ", "1",
      "6", "5", ".", "0", " ", "3", "6", "9", "3", ".", " ", "1", "1", ".",
      "5", " ", "7", "0", " ", "1", " ", "\"", "b", "u", "i", "c", "k",
      "\"", "\n">>

\* Rows with no field before the tab, the label a number or not.
LineLabelOnly ==
    <<"\t", "\"", "3", ".", "5", "\"", "\n">>

\* The same with another number, in single quotes.
LineLabelOnlyB ==
    <<"\t", "'", "1", "2", "'", "\n">>

\* The same with a name for a label.
LineLabelText ==
    <<"\t", "\"", "b", "u", "i", "c", "k", "\"", "\n">>

\* The bodies the server may send: no rows, well-formed rows, and rows that
\* are malformed in the ways above.
BodyPool ==
    {<<>>, LineA, LineA \o LineB,
     LineSeven, LineA \o LineSeven, LineNine, LineNoTab,
     LineLabelOnly, LineLabelOnly \o LineLabelOnlyB, LineLabelText}

\* Where a body that breaks off may break off.
CutPoints(body) == {0, Len(body) \div 2}

Responses ==
    {Response("refused", <<>>)}
        \cup {Response("ok", b) : b \in BodyPool}
        \cup UNION {{Response("cut", SubSeq(b, 1, n)) : n \in CutPoints(b)} :
                        b \in BodyPool \ {<<>>}}

Stamp(y, m, d, h) == [year |-> y, month |-> m, day |-> d, hour |-> h]

\* Instants in the order of time: two on one day, then the next day, the
\* same day of another month, the same day and month of another year.
Instants ==
    <<Stamp(2026, 1, 9, 8), Stamp(2026, 1, 9, 20), Stamp(2026, 1, 10, 8),
      Stamp(2026, 11, 9, 8), Stamp(2027, 1, 9, 8)>>

DateOf(ts) == <<ts.year, ts.month, ts.day>>

(***************************************************************************)
(* The flow.  Each stage names its successor with self.next.               *)
(***************************************************************************)
\* Variant in which start hands over to process_dataset.
StartNextSkipsDownload == "process_dataset"

StartNext == "get_file"
GetFileNext == "process_dataset"
ProcessDatasetNext == "save_dataset"
SaveDatasetNext == "end"


NoSnapshot == [files |-> EmptyFiles, saved_at |-> EmptyFiles]

Init ==
    /\ pc = "start"
    /\ run = 1
    /\ self = None
    /\ fs_dirs = {<<>>, <<Sep>>}
    /\ fs_files = EmptyFiles
    /\ now \in 1..Len(Instants)
    /\ history = <<>>
    /\ error = "none"
    /\ saved_at = EmptyFiles
    /\ snapshot = NoSnapshot
    /\ touched = {}
    /\ arg = None
    /\ ret = None
    /\ calls = 0

Harness == <<arg, ret, calls>>

\* A stage raised: the run is over.
Abort(stage) ==
    /\ pc' = "failed"
    /\ error' = stage
    /\ history' = Append(history, stage)

Advance(stage, next) ==
    /\ pc' = next
    /\ error' = error
    /\ history' = Append(history, stage)

\* start, lines 42-58.
Start ==
    /\ pc = "start"
    /\ self' = StartAttrs
    /\ Advance("start", StartNext)
    /\ UNCHANGED <<run, fs_dirs, fs_files, now, saved_at, snapshot, touched,
                   Harness>>

\* get_file, lines 67-71.
GetFile ==
    /\ pc = "get_file"
    /\ \E resp \in Responses :
         LET out == Download(GetFileUrl(self), PathArg(GetFileName(self)),
                             fs_dirs, fs_files, resp)
         IN /\ fs_dirs' = out.dirs
            /\ fs_files' = out.files
            /\ IF out.ret = Raised THEN Abort("get_file")
               ELSE Advance("get_file", GetFileNext)
    /\ UNCHANGED <<run, self, now, saved_at, snapshot, touched, Harness>>

\* process_dataset, lines 85-105.
Process ==
    /\ pc = "process_dataset"
    /\ LET data == ProcessDataset(self, fs_files)
       IN IF data = Raised
          THEN Abort("process_dataset") /\ self' = self
          ELSE /\ Advance("process_dataset", ProcessDatasetNext)
               /\ self' = [self EXCEPT !.data = data]
    /\ UNCHANGED <<run, fs_dirs, fs_files, now, saved_at, snapshot, touched,
                   Harness>>

\* save_dataset, lines 118-132.
Save ==
    /\ pc = "save_dataset"
    /\ \E disk \in DiskEvents :
         LET out == SaveDataset(self, fs_dirs, fs_files, Instants[now], disk)
         IN /\ fs_dirs' = out.dirs
            /\ fs_files' = out.files
            /\ touched' = touched \cup out.opened
            /\ saved_at' = [p \in out.opened |-> DateOf(Instants[now])] @@ saved_at
            /\ IF out.ok THEN Advance("save_dataset", SaveDatasetNext)
               ELSE Abort("save_dataset")
    /\ UNCHANGED <<run, self, now, snapshot, Harness>>

\* end, lines 135-136.
End ==
    /\ pc = "end"
    /\ Advance("end", "done")
    /\ UNCHANGED <<run, self, fs_dirs, fs_files, now, saved_at, snapshot,
                   touched, Harness>>

\* The command is run again, lines 139-140: a new flow object, the same disk.
NewRun ==
    /\ pc \in {"done", "failed"}
    /\ run < MaxRuns
    /\ run' = run + 1
    /\ pc' = "start"
    /\ self' = None
    /\ history' = <<>>
    /\ error' = "none"
    /\ touched' = {}
    /\ snapshot' = [files |-> fs_files, saved_at |-> saved_at]
    /\ UNCHANGED <<fs_dirs, fs_files, now, saved_at, Harness>>

\* Time passes.
Tick ==
    /\ now < Len(Instants)
    /\ now' \in (now + 1)..Len(Instants)
    /\ UNCHANGED <<pc, run, self, fs_dirs, fs_files, history, error,
                   saved_at, snapshot, touched, Harness>>

Next == Start \/ GetFile \/ Process \/ Save \/ End \/ NewRun \/ Tick

Spec == Init /\ [][Next]_vars

(***************************************************************************)
(* Properties of the flow.                                                 *)
(***************************************************************************)
StageOrder == <<"start", "get_file", "process_dataset", "save_dataset", "end">>

\* The body get_file downloaded in the current run.
RawBody == fs_files[<<"auto-mpg", Sep, "data", Sep, "raw", Sep, "auto-mpg.data">>].v

\* process_dataset has run, on a file this run downloaded whole.
Processed == Len(history) >= 3 /\ history[3] = "process_dataset"

\* C1: the stages of a run execute in the one order start, get_file,
\* process_dataset, save_dataset, end: what has executed is always an initial
\* part of that order (so no stage runs twice, none is skipped and none runs
\* before the one before it has), the stage to run next is the one that
\* follows the last one executed, and a run is done only when all five have.
C1_StagesInFixedOrder ==
    /\ Len(history) <= Len(StageOrder)
    /\ history = SubSeq(StageOrder, 1, Len(history))
    /\ pc \notin {"done", "failed"} =>
         /\ Len(history) < Len(StageOrder)
         /\ pc = StageOrder[Len(history) + 1]
    /\ pc = "done" => history = StageOrder

\* A second run went through all five stages.
C1_Witness ==
    /\ run = 2
    /\ pc = "done"
    /\ history = StageOrder

\* C2 as stated: a run in which a stage raised has written no processed
\* file at all, and a completed run exactly one.
C2_AbortWritesNothing ==
    /\ error # "none" => (pc = "failed" /\ touched = {})
    /\ pc = "done" => Cardinality(touched) = 1

\* C2, amended: an error ends the run at the stage that raised (no later
\* stage executes); a run aborted in get_file or process_dataset has opened no
\* processed file; a run aborted in save_dataset has written no complete
\* artifact: a file it opened holds the remains of the broken write; and a
\* run that is done has executed every stage and written exactly one
\* artifact, which holds its table.
C2_AbortWritesNoCompleteArtifact ==
    /\ pc = "failed" <=> error # "none"
    /\ error # "none" =>
         /\ Last(history) = error
         /\ error # "save_dataset" => touched = {}
         /\ \A p \in touched : fs_files[p] = Truncated
    /\ pc = "done" =>
         /\ history = StageOrder
         /\ \E p \in touched :
              touched = {p} /\ fs_files[p] = Parquet(self.data)

\* save_dataset raised in the middle of the write and left a truncated file.
C2_Witness ==
    /\ pc = "failed"
    /\ error = "save_dataset"
    /\ \E p \in touched : fs_files[p] = Truncated

\* The nine column names of the data set.
C3_Schema ==
    <<"mpg", "cylinders", "displacement", "horsepower", "weight",
      "acceleration", "model year", "origin", "car name">>

C3_ValidBodies == {LineA, LineA \o LineB}

\* C3 as stated: for a well-formed file of N rows process_dataset produces a
\* table of N rows under the nine distinct column names, row i holding the
\* values of line i (18.0 leads the first row of the sample, 15.0 the second).
C3_ValidFileGivesNineColumns ==
    (Processed /\ RawBody \in C3_ValidBodies) =>
        /\ error = "none"
        /\ self.data.columns = C3_Schema
        /\ Len(self.data.rows) = Cardinality(Positions(RawBody, {"\n"}))
        /\ \A r \in 1..Len(self.data.rows) :
             /\ Len(self.data.rows[r]) = Len(C3_Schema)
             /\ self.data.rows[r][1] =
                  Float(IF r = 1 THEN <<"1", "8", ".", "0">>
                        ELSE <<"1", "5", ".", "0">>)

C4_MalformedBodies ==
    {LineSeven, LineA \o LineSeven, LineNine, LineNoTab,
     LineLabelOnly, LineLabelOnly \o LineLabelOnlyB, LineLabelText}

\* C4 as stated: a file with a row that has fewer or more than 8 fields
\* before the tab, or no tab, makes process_dataset fail, so that
\* save_dataset is never reached.
C4_MalformedRowFails ==
    (Processed /\ RawBody \in C4_MalformedBodies) => error = "process_dataset"

\* The text strftime gives for the years, months and days of Instants.
C7_Year(y) == IF y = 2026 THEN "2026" ELSE "2027"
C7_TwoDigits(n) ==
    IF n = 1 THEN "01" ELSE IF n = 9 THEN "09" ELSE IF n = 10 THEN "10" ELSE "11"

C7_Path(date) ==
    <<"auto-mpg", Sep, "data", Sep, "processed", Sep,
      "yearkey=" \o C7_Year(date[1]), Sep,
      "monthkey=" \o C7_TwoDigits(date[2]), Sep,
      "daykey=" \o C7_TwoDigits(date[3]), Sep, "data.parquet.gzip">>

IsPrefix(a, b) == Len(a) <= Len(b) /\ a = SubSeq(b, 1, Len(a))

\* C7: the path save_dataset writes depends on the date of the run only: a
\* file written on year Y, month M, day D, at whatever hour and in whatever
\* run, is <base>/processed/yearkey=YYYY/monthkey=MM/daykey=DD/
\* data.parquet.gzip with the fields zero-padded to 4, 2 and 2 digits; a
\* path written today was not the path of another day before; and the
\* partition directories of two days lie apart, neither inside the other.
C7_PathFromDate ==
    /\ \A p \in DOMAIN saved_at : p = C7_Path(saved_at[p])
    /\ \A p \in touched :
         p \in DOMAIN snapshot.saved_at => snapshot.saved_at[p] = saved_at[p]
    /\ \A p, q \in DOMAIN saved_at :
         saved_at[p] # saved_at[q] =>
            /\ p # q
            /\ ~IsPrefix(Front(Front(p)), q)

\* Two runs on the 9th and the 10th of January left two partitions.
C7_Witness ==
    /\ run = 2
    /\ pc = "done"
    /\ \E p, q \in DOMAIN saved_at :
         /\ saved_at[p] = <<2026, 1, 9>>
         /\ saved_at[q] = <<2026, 1, 10>>
         /\ fs_files[p].k = "parquet"
         /\ fs_files[q].k = "parquet"

\* C8: a run that completes has written exactly one processed file, which
\* holds that run's table and nothing of an earlier run's, with the directory
\* tree above it in place; the disk never holds two processed files of one
\* calendar day; and the processed files of other days than the one the run
\* wrote on are as they were when the run began.
C8_OneArtifactPerDay ==
    /\ pc = "done" =>
         \E p \in touched :
            /\ touched = {p}
            /\ fs_files[p] = Parquet(self.data)
            /\ DirsAbove(p) \subseteq fs_dirs
    /\ \A p, q \in DOMAIN saved_at \cap DOMAIN fs_files :
         saved_at[p] = saved_at[q] => p = q
    /\ \A p \in DOMAIN snapshot.saved_at :
         (\A t \in touched : saved_at[t] # snapshot.saved_at[p]) =>
            /\ p \in DOMAIN fs_files
            /\ fs_files[p] = snapshot.files[p]

\* A second run on the same day replaced the first run's table by its own,
\* while the file of an earlier day stayed.
C8_Witness ==
    /\ pc = "done"
    /\ \E p \in touched :
         /\ p \in DOMAIN snapshot.saved_at
         /\ snapshot.saved_at[p] = saved_at[p]
         /\ snapshot.files[p].k = "parquet"
         /\ snapshot.files[p] # fs_files[p]
         /\ fs_files[p] = Parquet(self.data)

=============================================================================
